---- MODULE Spec2Model ----
(***************************************************************************)
(* Document lifecycle, workflow engine and office sessions of the office   *)
(* document sharing system: the HTTP handlers of server/routes.ts over the *)
(* two storage implementations of server/storage.ts.                        *)
(*                                                                         *)
(* A request is a handler run.  A handler runs from one storage call to    *)
(* the next without interruption (JavaScript runs a handler to its next    *)
(* await), so one action is one storage call together with the synchronous *)
(* code that follows it.  storage.getUser is folded into the storage call   *)
(* before it: no modelled request writes the user table.                    *)
(* Timestamps (createdAt, updatedAt, at, doneAt) are left out of the        *)
(* records; creation order is the order of the sequences.  The clock that   *)
(* office sessions expire by is the variable now.                           *)
(***************************************************************************)
EXTENDS Integers, Sequences, FiniteSets, TLC

\* ------------------------------------------------------------------ bounds
MaxDocs == 2
MaxRequests == 3        \* requests of a run with any other traffic
MaxScenarioRequests == 5  \* requests of a run with scenario traffic
MaxFaults == 1          \* storage calls that fail in a run
MaxOfficeRequests == 4  \* requests of a run with office traffic
MaxClock == 3           \* the clock stops here (in half days)
MaxApproveRequests == 4 \* requests of a run with approving traffic

\* ------------------------------------------------------------------ values
Absent == "absent"   \* a field the request body does not carry (undefined)
Null == "NULL"       \* JSON null / SQL NULL

documentStatusEnum ==
  {"DRAFT", "IN_REVIEW", "PENDING_SIGNATURE", "APPROVED", "REJECTED", "ARCHIVED"}

workflowStateEnum == {"DRAFT", "REVIEW", "SIGN", "APPROVAL", "DONE", "REJECTED"}

\* The storage picked at start-up: DatabaseStorage in production, else MemStorage.
StorageKinds == {"DatabaseStorage", "MemStorage"}

\* The user table (fixed: no modelled request writes it).
users ==
  [admin |-> [id |-> "admin", roles |-> {"ADMIN"}],
   u1    |-> [id |-> "u1", roles |-> {}],
   u2    |-> [id |-> "u2", roles |-> {}],
   u3    |-> [id |-> "u3", roles |-> {"APPROVER"}]]

Slots == {1, 2}

\* The offices table (the sample offices of MemStorage; no modelled request
\* writes it).
offices ==
  {[officeId |-> "NYC001", officeCode |-> "NYC001", officePassword |-> "secure123"],
   [officeId |-> "LA002", officeCode |-> "LA002", officePassword |-> "westcoast456"]}

\* 24 * 60 * 60 * 1000 ms, in half days
sessionLifetime == 2

\* A session token no login has issued.
UnknownToken == 99

InSeq(x, s) == \E i \in DOMAIN s : s[i] = x

EmptyParticipants ==
  [editors |-> <<>>, reviewers |-> <<>>, approvers |-> <<>>, viewers |-> <<>>]

\* ------------------------------------------------------------------ inputs
\* What a request carries (body, parameters, headers).  currentVersionId 0:
\* the body does not carry the key; sessionToken 0: no x-office-session header.
NoBody ==
  [title |-> Absent, content |-> Absent, status |-> Absent, ownerUid |-> Absent,
   currentVersionId |-> 0,
   participants |-> EmptyParticipants, reason |-> Absent, notes |-> Absent,
   body |-> Absent, file |-> FALSE,
   officeCode |-> Absent, password |-> Absent, sessionToken |-> 0,
   officeId |-> Absent, messageId |-> 0]

\* ------------------------------------------------------------------ state
VARIABLES
  storageKind,   \* which storage implementation `storage` is
  traffic,       \* which requests the clients send, see the inputs below
  faults,        \* number of storage calls that may still fail
  documents,     \* documents table, in creation order; a document's id is its index
  workflows,     \* workflows table; a workflow's id is its index
  tasks,         \* tasks table; a task's id is its index
  versions,      \* document_versions table; a version's id is its index
  auditLogs,     \* audit_logs table, in insertion order
  comments,      \* document_comments table, in insertion order
  officeLogins,  \* office sessions by session token; the k-th login issues token k
  messages,      \* messages by id: the office each targets and who has read it
  now,           \* the server's clock, in half days
  req,           \* per handler slot: the request it runs, its position, its locals
  budget         \* number of requests still to be received

vars == <<storageKind, traffic, faults, documents, workflows, tasks, versions, auditLogs, comments,
         officeLogins, messages, now, req, budget>>

\* What the steps of a handler leave alone.
env == <<storageKind, traffic, faults>>

store == <<documents, workflows, tasks, versions, auditLogs, comments>>

\* What the document handlers leave alone.
officeState == <<officeLogins, messages, now>>

\* ------------------------------------------------------------------ inputs
\* Varied traffic: every user sends every kind of request with every modelled
\* body.  Scenario traffic: the owner u1 and the editor/reviewer/approver u2
\* work on documents created with a title, no status and the participants
\* below; fewer inputs, longer runs.  Faulty and concurrent traffic send the
\* requests of scenario traffic, the first while storage calls may fail, the
\* second two at a time.  Approving traffic is scenario traffic whose
\* documents are submitted by the editor u2 and approved by u2 and by u3, who
\* has the APPROVER role.  Commenting traffic is varied traffic that creates
\* documents and comments on them.
Varied == traffic \in {"varied", "commenting"}

ScenarioParticipants ==
  [editors |-> <<"u2">>, reviewers |-> <<"u1", "u2">>,
   approvers |-> <<"u2">>, viewers |-> <<>>]

\* The users who send requests.
Callers ==
  IF Varied THEN DOMAIN users
  ELSE IF traffic = "approving" THEN {"u2", "u3"}
  ELSE {"u1", "u2"}

\* The users who send create requests.
Creators == IF Varied THEN {"u1", "u3"} ELSE {"u1"}

ParticipantsInputs == {EmptyParticipants, ScenarioParticipants}

\* Bodies of POST /api/documents: without a title, with a status outside the
\* enum, with an owner and a current version of the client's choosing, and
\* with a title and no status, a null status or the status IN_REVIEW.
CreateBodies ==
  IF Varied
  THEN {NoBody, [NoBody EXCEPT !.title = "t1", !.status = "BOGUS"],
        [NoBody EXCEPT !.title = "t1", !.ownerUid = "u2", !.currentVersionId = 7]}
       \cup {[NoBody EXCEPT !.title = "t1", !.status = st, !.participants = p] :
               st \in {Absent, Null, "IN_REVIEW"}, p \in ParticipantsInputs}
  ELSE {[NoBody EXCEPT !.title = "t1", !.participants = ScenarioParticipants]}

\* Bodies of PATCH /api/documents/:id: a title, or a content together with a
\* status.
EditBodies ==
  IF Varied
  THEN {[NoBody EXCEPT !.title = "t2"],
        [NoBody EXCEPT !.content = "c2", !.status = "APPROVED"]}
  ELSE {[NoBody EXCEPT !.title = "t2"]}

\* Whether the multipart request carries a file.
FileInputs == IF Varied THEN BOOLEAN ELSE {TRUE}

ReasonInputs == IF Varied THEN {Absent, "", "needs rework"} ELSE {"needs rework"}

NotesInputs == IF Varied THEN {Absent, "", "ok"} ELSE {"ok"}

\* The body key of POST /api/documents/:id/comments
CommentInputs == IF Varied THEN {Absent, "c1"} ELSE {"c1"}

Snapshot ==
  [documents |-> documents, workflows |-> workflows, tasks |-> tasks,
   versions |-> versions, auditLogs |-> auditLogs, comments |-> comments,
   officeLogins |-> officeLogins, messages |-> messages]

NoSnapshot ==
  [documents |-> <<>>, workflows |-> <<>>, tasks |-> <<>>,
   versions |-> <<>>, auditLogs |-> <<>>, comments |-> <<>>,
   officeLogins |-> <<>>, messages |-> <<>>]

IdleReq ==
  [kind |-> "none", caller |-> "admin", docId |-> 0, body |-> NoBody,
   pc |-> "idle", document |-> <<>>, workflow |-> <<>>, userTasks |-> <<>>,
   i |-> 0, versionNumber |-> <<0, 0>>, newId |-> 0, office |-> <<>>,
   officeSession |-> <<>>,
   at |-> 0, code |-> 0, err |-> "none", pre |-> NoSnapshot]

InFlight(s) == req[s].pc \notin {"idle", "done"}

Quiescent == \A s \in Slots : ~InFlight(s)

\* ------------------------------------------------------------------ access control
\* storage.getUser: <<user>> or <<>> (undefined)
getUser(id) == IF id \in DOMAIN users THEN <<users[id]>> ELSE <<>>

\* Mutant of canAccessDocument: the viewers are left out of the participants.
canAccessWithoutViewers(document, user) ==
  /\ user # <<>>
  /\ \/ "ADMIN" \in user[1].roles
     \/ document.ownerUid = user[1].id
     \/ InSeq(user[1].id, document.participants.editors
                           \o document.participants.reviewers
                           \o document.participants.approvers)

\* Mutant of canAccessDocument: a participant has access only while the
\* document has a single participant entry.
canAccessSoleParticipant(document, user) ==
  /\ user # <<>>
  /\ \/ "ADMIN" \in user[1].roles
     \/ document.ownerUid = user[1].id
     \/ LET allParticipants == document.participants.editors
                                 \o document.participants.reviewers
                                 \o document.participants.approvers
                                 \o document.participants.viewers
        IN Len(allParticipants) = 1 /\ allParticipants[1] = user[1].id

canAccessDocument(document, user) ==
  /\ user # <<>>
  /\ \/ "ADMIN" \in user[1].roles
     \/ document.ownerUid = user[1].id
     \/ InSeq(user[1].id, document.participants.editors
                           \o document.participants.reviewers
                           \o document.participants.approvers
                           \o document.participants.viewers)

\* Mutant of canEditDocument: every known user may edit.
canEditAnyUser(document, user) == user # <<>>

canEditDocument(document, user) ==
  /\ user # <<>>
  /\ \/ "ADMIN" \in user[1].roles
     \/ document.ownerUid = user[1].id
     \/ InSeq(user[1].id, document.participants.editors)

canReviewDocument(document, user) ==
  /\ user # <<>>
  /\ \/ "ADMIN" \in user[1].roles
     \/ InSeq(user[1].id, document.participants.reviewers)

canApproveDocument(document, user) ==
  /\ user # <<>>
  /\ \/ "ADMIN" \in user[1].roles
     \/ "APPROVER" \in user[1].roles
     \/ InSeq(user[1].id, document.participants.approvers)

\* ------------------------------------------------------------------ storage
\* storage.getDocument: <<document>> or <<>>
getDocument(id) == IF id \in DOMAIN documents THEN <<documents[id]>> ELSE <<>>

\* MemStorage declares no updateDocument: the call throws a TypeError.
hasUpdateDocument(kind) == kind = "DatabaseStorage"

\* Mutant of updateDocument: the row is replaced by the given fields over the
\* defaults of a new document, which drops its participants.
updateDocumentReplacing(docs, id, updates) ==
  IF id \in DOMAIN docs
  THEN [docs EXCEPT ![id] =
         [f \in DOMAIN docs[id] |->
            IF f \in DOMAIN updates THEN updates[f]
            ELSE IF f = "participants" THEN EmptyParticipants
            ELSE docs[id][f]]]
  ELSE docs

\* DatabaseStorage.updateDocument: set the given fields of the row with that id.
updateDocument(docs, id, updates) ==
  IF id \in DOMAIN docs
  THEN [docs EXCEPT ![id] =
         [f \in DOMAIN docs[id] |->
            IF f \in DOMAIN updates THEN updates[f] ELSE docs[id][f]]]
  ELSE docs

\* storage.getWorkflow(docId): the first workflow of the document, or <<>>
getWorkflow(docId) ==
  LET ids == {w \in DOMAIN workflows : workflows[w].docId = docId}
  IN IF ids = {} THEN <<>>
     ELSE LET w == CHOOSE x \in ids : \A y \in ids : x <= y
          IN <<workflows[w]>>

\* storage.updateWorkflow(id, {state, history})
updateWorkflow(wfs, id, state, history) ==
  IF id \in DOMAIN wfs
  THEN [wfs EXCEPT ![id].state = state, ![id].history = history]
  ELSE wfs

\* ------------------------------------------------------------------ responses
Respond(s, code, err) ==
  [req[s] EXCEPT !.pc = "done", !.code = code, !.err = err]

Goto(s, pc) == [req[s] EXCEPT !.pc = pc]

Receive(s, kind, caller, docId, body) ==
  [IdleReq EXCEPT !.kind = kind, !.caller = caller, !.docId = docId,
                  !.body = body, !.pre = Snapshot]

\* A request is received by the lowest slot that runs no request (the slots are
\* interchangeable).
CanReceive(s) ==
  /\ ~InFlight(s)
  /\ \A o \in Slots : o < s => InFlight(o)
  /\ budget > 0

\* ------------------------------------------------------------------ Init
\* The sample messages of MemStorage: a general memo and one for each office.
sampleMessages ==
  <<[messageType |-> "general_memo", targetOfficeId |-> Null, isRead |-> {}],
    [messageType |-> "office_specific", targetOfficeId |-> "NYC001", isRead |-> {}],
    [messageType |-> "office_specific", targetOfficeId |-> "LA002", isRead |-> {}]>>

\* The server after start-up, about to receive `requests` requests of the
\* given traffic, `failing` of whose storage calls fail.
Start(kindOfTraffic, requests, failing) ==
  /\ storageKind \in StorageKinds
  /\ traffic = kindOfTraffic
  /\ budget = requests
  /\ faults = failing
  /\ documents = <<>>
  /\ workflows = <<>>
  /\ tasks = <<>>
  /\ versions = <<>>
  /\ auditLogs = <<>>
  /\ comments = <<>>
  /\ officeLogins = <<>>
  /\ messages = sampleMessages
  /\ now = 0
  /\ req = [s \in Slots |-> IdleReq]

Init == Start("varied", MaxRequests, 0)

ScenarioInit == Start("scenario", MaxScenarioRequests, 0)

FaultInit == Start("faulty", MaxRequests, MaxFaults)

ConcInit == Start("concurrent", MaxRequests, 0)

ApproveInit == Start("approving", MaxApproveRequests, 0)

OfficeInit == Start("office", MaxOfficeRequests, 0)

CommentInit == Start("commenting", MaxRequests, 0)

\* ------------------------------------------------------------------ POST /api/documents
\* insertDocumentSchema.parse: title is required; status is optional and
\* nullable and must be a member of the enum when it is given.
insertDocumentSchemaOk(body) ==
  /\ body.title # Absent
  /\ body.status \in documentStatusEnum \cup {Absent, Null}

\* { ...req.body, ownerUid: userId, content: req.body.content || "" }
validatedData(body, userId) ==
  [body EXCEPT !.ownerUid = userId,
               !.content = IF body.content = Absent THEN "" ELSE body.content]

\* Mutant of insertDocumentSchemaParse: currentVersionId is not omitted.
insertDocumentSchemaKeepsAll(data) == data

\* What insertDocumentSchema.parse returns: the schema omits currentVersionId
\* (and id, createdAt, updatedAt), so the key is stripped.
insertDocumentSchemaParse(data) == [data EXCEPT !.currentVersionId = 0]

\* createDocument of either storage: the row that is inserted.
createDocument(kind, document) ==
  [title |-> document.title,
   content |-> document.content,
   ownerUid |-> document.ownerUid,
   status |-> IF document.status = Absent THEN "DRAFT"
              ELSE IF document.status = Null
                   THEN (IF kind = "MemStorage" THEN "DRAFT" ELSE Null)
                   ELSE document.status,
   currentVersionId |-> document.currentVersionId,
   participants |-> document.participants]

CreateDocument(s) ==
  /\ CanReceive(s)
  /\ Len(documents) < MaxDocs
  /\ \E caller \in Creators, body \in CreateBodies :
       LET r == Receive(s, "create", caller, 0, body)
       IN IF insertDocumentSchemaOk(body)
          THEN /\ documents' =
                    Append(documents,
                           createDocument(storageKind,
                             insertDocumentSchemaParse(validatedData(body, caller))))
               /\ req' = [req EXCEPT ![s] =
                            [r EXCEPT !.pc = "createWorkflow",
                                      !.docId = Len(documents) + 1]]
          ELSE /\ documents' = documents
               /\ req' = [req EXCEPT ![s] =
                            [r EXCEPT !.pc = "done", !.code = 400, !.err = "validation"]]
  /\ budget' = budget - 1
  /\ UNCHANGED <<env, officeState, comments, workflows, tasks, versions, auditLogs>>

CreateWorkflow(s) ==
  /\ req[s].kind = "create" /\ req[s].pc = "createWorkflow"
  /\ workflows' = Append(workflows,
                         [id |-> Len(workflows) + 1, docId |-> req[s].docId,
                          state |-> "DRAFT", history |-> <<>>])
  /\ req' = [req EXCEPT ![s] = Goto(s, "createAuditLog")]
  /\ UNCHANGED <<env, officeState, comments, documents, tasks, versions, auditLogs, budget>>

AuditEntry(actorUid, action, docId) ==
  [actorUid |-> actorUid, action |-> action, target |-> docId]

CreateAuditLog(s) ==
  /\ req[s].kind = "create" /\ req[s].pc = "createAuditLog"
  /\ auditLogs' = Append(auditLogs,
                         AuditEntry(req[s].caller, "DOCUMENT_CREATED", req[s].docId))
  /\ req' = [req EXCEPT ![s] = Respond(s, 201, "none")]
  /\ UNCHANGED <<env, officeState, comments, documents, workflows, tasks, versions, budget>>

\* ------------------------------------------------------------------ PATCH /api/documents/:id
\* The handler's own edit check (it does not call canEditDocument).
patchMayEdit(document, userId) ==
  \/ document.ownerUid = userId
  \/ InSeq(userId, document.participants.editors)

editableState(status) == status \in {"DRAFT", "REJECTED"}

\* Mutant of editUpdates: the status of the body is written as well.
editUpdatesWithStatus(body) ==
  [f \in {g \in {"title", "content", "status"} : body[g] # Absent} |-> body[f]]

\* { title, content, updatedAt }: a field the body does not carry is undefined
\* and is not set.
editUpdates(body) ==
  [f \in {g \in {"title", "content"} : body[g] # Absent} |-> body[f]]

EditGetDocument(s) ==
  /\ CanReceive(s)
  /\ \E caller \in Callers, docId \in 1..MaxDocs, body \in EditBodies :
       LET r == Receive(s, "edit", caller, docId, body)
           document == getDocument(docId)
       IN req' = [req EXCEPT ![s] =
            IF document = <<>>
            THEN [r EXCEPT !.pc = "done", !.code = 404, !.err = "notfound"]
            ELSE IF ~patchMayEdit(document[1], caller)
            THEN [r EXCEPT !.pc = "done", !.code = 403, !.err = "auth"]
            ELSE IF ~editableState(document[1].status)
            THEN [r EXCEPT !.pc = "done", !.code = 400, !.err = "state"]
            ELSE [r EXCEPT !.pc = "updateDocument", !.document = document]]
  /\ budget' = budget - 1
  /\ UNCHANGED <<env, officeState, store>>

EditUpdateDocument(s) ==
  /\ req[s].kind = "edit" /\ req[s].pc = "updateDocument"
  /\ IF hasUpdateDocument(storageKind)
     THEN /\ documents' = updateDocument(documents, req[s].docId, editUpdates(req[s].body))
          /\ req' = [req EXCEPT ![s] = Respond(s, 200, "none")]
     ELSE /\ documents' = documents
          /\ req' = [req EXCEPT ![s] = Respond(s, 500, "server")]
  /\ UNCHANGED <<env, officeState, comments, workflows, tasks, versions, auditLogs, budget>>

\* ------------------------------------------------------------------ POST /api/documents/:id/versions
\* A version number "k.0" is the pair <<k, 0>>.
formatVersion(major) == <<major, 0>>

\* parseInt(versionNumber.split('.')[0])
parseMajor(versionNumber) == versionNumber[1]

\* storage.getDocumentVersions(docId): the document's versions, newest first
getDocumentVersions(docId) ==
  LET ids == {v \in DOMAIN versions : versions[v].docId = docId}
      RECURSIVE newestFirst(_)
      newestFirst(S) ==
        IF S = {} THEN <<>>
        ELSE LET m == CHOOSE x \in S : \A y \in S : y <= x
             IN <<versions[m]>> \o newestFirst(S \ {m})
  IN newestFirst(ids)

\* Mutant of getLatestVersion: the oldest version of the document.
getOldestVersion(docId) ==
  LET vs == getDocumentVersions(docId)
  IN IF vs = <<>> THEN <<>> ELSE <<vs[Len(vs)]>>

\* storage.getLatestVersion(docId): <<version>> or <<>>
getLatestVersion(docId) ==
  LET vs == getDocumentVersions(docId)
  IN IF vs = <<>> THEN <<>> ELSE <<vs[1]>>

\* Mutant of newVersionNumber: the stored versions are not looked at.
newVersionNumberInitial(vs) == formatVersion(1)

\* Mutant of newVersionNumber: counts on from the oldest version.
newVersionNumberFromOldest(vs) ==
  IF vs = <<>> THEN formatVersion(1)
  ELSE formatVersion(parseMajor(vs[Len(vs)].versionNumber) + 1)

\* const latestVersion = versions[0];
\* latestVersion ? `${parseInt(latestVersion.versionNumber.split('.')[0]) + 1}.0` : '1.0'
newVersionNumber(vs) ==
  IF vs = <<>> THEN formatVersion(1) ELSE formatVersion(parseMajor(vs[1].versionNumber) + 1)

VersionsGetDocument(s) ==
  /\ CanReceive(s)
  /\ \E caller \in Callers, docId \in 1..MaxDocs, file \in FileInputs :
       LET body == [NoBody EXCEPT !.file = file]
           r == Receive(s, "versions", caller, docId, body)
           document == getDocument(docId)
       IN req' = [req EXCEPT ![s] =
            IF ~file
            THEN [r EXCEPT !.pc = "done", !.code = 400, !.err = "validation"]
            ELSE IF document = <<>>
            THEN [r EXCEPT !.pc = "done", !.code = 404, !.err = "notfound"]
            ELSE IF ~canEditDocument(document[1], getUser(caller))
            THEN [r EXCEPT !.pc = "done", !.code = 403, !.err = "auth"]
            ELSE [r EXCEPT !.pc = "getDocumentVersions", !.document = document]]
  /\ budget' = budget - 1
  /\ UNCHANGED <<env, officeState, store>>

VersionsGetVersions(s) ==
  /\ req[s].kind = "versions" /\ req[s].pc = "getDocumentVersions"
  /\ req' = [req EXCEPT ![s] =
       [req[s] EXCEPT !.pc = "createDocumentVersion",
                      !.versionNumber = newVersionNumber(getDocumentVersions(req[s].docId))]]
  /\ UNCHANGED <<env, officeState, store, budget>>

VersionsCreateVersion(s) ==
  /\ req[s].kind = "versions" /\ req[s].pc = "createDocumentVersion"
  /\ versions' = Append(versions,
       [id |-> Len(versions) + 1, docId |-> req[s].docId,
        versionNumber |-> req[s].versionNumber, createdBy |-> req[s].caller])
  /\ req' = [req EXCEPT ![s] =
       [req[s] EXCEPT !.pc = "updateDocument", !.newId = Len(versions) + 1]]
  /\ UNCHANGED <<env, officeState, comments, documents, workflows, tasks, auditLogs, budget>>

VersionsUpdateDocument(s) ==
  /\ req[s].kind = "versions" /\ req[s].pc = "updateDocument"
  /\ IF hasUpdateDocument(storageKind)
     THEN /\ documents' = updateDocument(documents, req[s].docId,
                                         [currentVersionId |-> req[s].newId])
          /\ req' = [req EXCEPT ![s] = Goto(s, "createAuditLog")]
     ELSE /\ documents' = documents
          /\ req' = [req EXCEPT ![s] = Respond(s, 500, "server")]
  /\ UNCHANGED <<env, officeState, comments, workflows, tasks, versions, auditLogs, budget>>

VersionsAuditLog(s) ==
  /\ req[s].kind = "versions" /\ req[s].pc = "createAuditLog"
  /\ auditLogs' = Append(auditLogs,
                         AuditEntry(req[s].caller, "VERSION_UPLOADED", req[s].docId))
  /\ req' = [req EXCEPT ![s] = Respond(s, 201, "none")]
  /\ UNCHANGED <<env, officeState, comments, documents, workflows, tasks, versions, budget>>

\* ------------------------------------------------------------------ workflow transitions
HistoryEntry(byUid, action, notes, reason) ==
  [byUid |-> byUid, action |-> action, meta |-> [notes |-> notes, reason |-> reason]]

\* storage.updateDocument(docId, { status }) of submit, approve and reject
UpdateDocumentStatus(s, status) ==
  /\ IF hasUpdateDocument(storageKind)
     THEN /\ documents' = updateDocument(documents, req[s].docId, [status |-> status])
          /\ req' = [req EXCEPT ![s] = Goto(s, "getWorkflow")]
     ELSE /\ documents' = documents
          /\ req' = [req EXCEPT ![s] = Respond(s, 500, "server")]
  /\ UNCHANGED <<env, officeState, comments, workflows, tasks, versions, auditLogs, budget>>

\* const workflow = await storage.getWorkflow(docId); if (workflow) { ... }
GetWorkflowStep(s, afterwards) ==
  /\ LET workflow == getWorkflow(req[s].docId)
     IN req' = [req EXCEPT ![s] =
          [req[s] EXCEPT !.workflow = workflow,
                         !.pc = IF workflow = <<>> THEN afterwards ELSE "updateWorkflow"]]
  /\ UNCHANGED <<env, officeState, store, budget>>

\* history.push(entry); await storage.updateWorkflow(workflow.id, { state, history })
UpdateWorkflowStep(s, state, entry, afterwards) ==
  /\ workflows' = updateWorkflow(workflows, req[s].workflow[1].id, state,
                                 Append(req[s].workflow[1].history, entry))
  /\ req' = [req EXCEPT ![s] = Goto(s, afterwards)]
  /\ UNCHANGED <<env, officeState, comments, documents, tasks, versions, auditLogs, budget>>

AuditLogStep(s, action) ==
  /\ auditLogs' = Append(auditLogs, AuditEntry(req[s].caller, action, req[s].docId))
  /\ req' = [req EXCEPT ![s] = Respond(s, 200, "none")]
  /\ UNCHANGED <<env, officeState, comments, documents, workflows, tasks, versions, budget>>

\* ------------------------------------------------------------------ POST /api/documents/:id/submit
\* Mutant of submitGuard: a document in review may be submitted again.
submitGuardResubmit(status) == status \in {"DRAFT", "IN_REVIEW"}

\* if (document.status !== 'DRAFT') return 400
submitGuard(status) == status = "DRAFT"

AfterSubmitWorkflow(document) ==
  IF Len(document.participants.reviewers) > 0 THEN "createTask" ELSE "createAuditLog"

SubmitGetDocument(s) ==
  /\ CanReceive(s)
  /\ \E caller \in Callers, docId \in 1..MaxDocs :
       LET r == Receive(s, "submit", caller, docId, NoBody)
           document == getDocument(docId)
       IN req' = [req EXCEPT ![s] =
            IF document = <<>>
            THEN [r EXCEPT !.pc = "done", !.code = 404, !.err = "notfound"]
            ELSE IF ~submitGuard(document[1].status)
            THEN [r EXCEPT !.pc = "done", !.code = 400, !.err = "state"]
            ELSE IF ~canEditDocument(document[1], getUser(caller))
            THEN [r EXCEPT !.pc = "done", !.code = 403, !.err = "auth"]
            ELSE [r EXCEPT !.pc = "updateDocument", !.document = document]]
  /\ budget' = budget - 1
  /\ UNCHANGED <<env, officeState, store>>

SubmitUpdateDocument(s) ==
  /\ req[s].kind = "submit" /\ req[s].pc = "updateDocument"
  /\ UpdateDocumentStatus(s, "IN_REVIEW")

SubmitGetWorkflow(s) ==
  /\ req[s].kind = "submit" /\ req[s].pc = "getWorkflow"
  /\ GetWorkflowStep(s, AfterSubmitWorkflow(req[s].document[1]))

SubmitUpdateWorkflow(s) ==
  /\ req[s].kind = "submit" /\ req[s].pc = "updateWorkflow"
  /\ UpdateWorkflowStep(s, "REVIEW",
                        HistoryEntry(req[s].caller, "SUBMIT_FOR_REVIEW", Absent, Absent),
                        AfterSubmitWorkflow(req[s].document[1]))

\* The task row createTask inserts for one reviewer.
reviewTask(id, docId, workflowId, reviewerId) ==
  [id |-> id, type |-> "REVIEW", docId |-> docId, workflowId |-> workflowId,
   state |-> "OPEN", assignedTo |-> <<reviewerId>>, notes |-> Null]

\* for (const reviewerId of document.participants.reviewers) await storage.createTask(...)
\* One iteration.  Without a workflow the workflowId is '': the tasks table of
\* DatabaseStorage refuses it (workflow_id references workflows.id), MemStorage
\* stores it.
SubmitCreateTask(s) ==
  /\ req[s].kind = "submit" /\ req[s].pc = "createTask"
  /\ LET reviewers == req[s].document[1].participants.reviewers
         i == req[s].i + 1
         workflowId == IF req[s].workflow = <<>> THEN 0 ELSE req[s].workflow[1].id
     IN IF workflowId = 0 /\ storageKind = "DatabaseStorage"
        THEN /\ tasks' = tasks
             /\ req' = [req EXCEPT ![s] = Respond(s, 500, "server")]
        ELSE /\ tasks' = Append(tasks, reviewTask(Len(tasks) + 1, req[s].docId,
                                                  workflowId, reviewers[i]))
             /\ req' = [req EXCEPT ![s] =
                  [req[s] EXCEPT !.i = i,
                                 !.pc = IF i < Len(reviewers) THEN "createTask"
                                        ELSE "createAuditLog"]]
  /\ UNCHANGED <<env, officeState, comments, documents, workflows, versions, auditLogs, budget>>

SubmitAuditLog(s) ==
  /\ req[s].kind = "submit" /\ req[s].pc = "createAuditLog"
  /\ AuditLogStep(s, "SUBMIT_FOR_REVIEW")

\* ------------------------------------------------------------------ POST /api/documents/:id/approve
\* The assignedTo filter of storage.getTasks: DatabaseStorage compares the
\* whole array with [uid], MemStorage tests membership.
\* Mutant of assignedToMatches: the filter on the assignee is dropped.
assignedToAnyone(kind, task, uid) == TRUE

assignedToMatches(kind, task, uid) ==
  IF kind = "DatabaseStorage" THEN task.assignedTo = <<uid>>
  ELSE InSeq(uid, task.assignedTo)

\* storage.getTasks({ assignedTo, state }), newest first, then
\* .filter(t => t.docId === docId): the ids of the tasks.
getUserTasks(kind, uid, state, docId) ==
  LET ids == {k \in DOMAIN tasks :
                /\ assignedToMatches(kind, tasks[k], uid)
                /\ tasks[k].state = state
                /\ tasks[k].docId = docId}
      RECURSIVE newestFirst(_)
      newestFirst(S) ==
        IF S = {} THEN <<>>
        ELSE LET m == CHOOSE x \in S : \A y \in S : y <= x
             IN <<m>> \o newestFirst(S \ {m})
  IN newestFirst(ids)

\* req.body.notes || 'Approved'
taskNotes(notes) == IF notes \in {Absent, ""} THEN "Approved" ELSE notes

\* storage.updateTask(id, { state: 'DONE', doneAt, notes })
\* Mutant of updateTask: the task is cancelled, whatever state is asked for.
updateTaskCancelling(ts, id, state, notes) ==
  IF id \in DOMAIN ts
  THEN [ts EXCEPT ![id].state = "CANCELLED", ![id].notes = notes]
  ELSE ts

updateTask(ts, id, state, notes) ==
  IF id \in DOMAIN ts
  THEN [ts EXCEPT ![id].state = state, ![id].notes = notes]
  ELSE ts

ApproveGetDocument(s) ==
  /\ CanReceive(s)
  /\ \E caller \in Callers, docId \in 1..MaxDocs, notes \in NotesInputs :
       LET r == Receive(s, "approve", caller, docId, [NoBody EXCEPT !.notes = notes])
           document == getDocument(docId)
       IN req' = [req EXCEPT ![s] =
            IF document = <<>>
            THEN [r EXCEPT !.pc = "done", !.code = 404, !.err = "notfound"]
            ELSE IF ~canApproveDocument(document[1], getUser(caller))
            THEN [r EXCEPT !.pc = "done", !.code = 403, !.err = "auth"]
            ELSE [r EXCEPT !.pc = "updateDocument", !.document = document]]
  /\ budget' = budget - 1
  /\ UNCHANGED <<env, officeState, store>>

ApproveUpdateDocument(s) ==
  /\ req[s].kind = "approve" /\ req[s].pc = "updateDocument"
  /\ UpdateDocumentStatus(s, "APPROVED")

ApproveGetWorkflow(s) ==
  /\ req[s].kind = "approve" /\ req[s].pc = "getWorkflow"
  /\ GetWorkflowStep(s, "getTasks")

ApproveUpdateWorkflow(s) ==
  /\ req[s].kind = "approve" /\ req[s].pc = "updateWorkflow"
  /\ UpdateWorkflowStep(s, "DONE",
                        HistoryEntry(req[s].caller, "APPROVE", req[s].body.notes, Absent),
                        "getTasks")

ApproveGetTasks(s) ==
  /\ req[s].kind = "approve" /\ req[s].pc = "getTasks"
  /\ LET userTasks == getUserTasks(storageKind, req[s].caller, "OPEN", req[s].docId)
     IN req' = [req EXCEPT ![s] =
          [req[s] EXCEPT !.userTasks = userTasks,
                         !.pc = IF userTasks = <<>> THEN "createAuditLog"
                                ELSE "updateTask"]]
  /\ UNCHANGED <<env, officeState, store, budget>>

\* One iteration of the loop over the caller's open tasks of the document.
ApproveUpdateTask(s) ==
  /\ req[s].kind = "approve" /\ req[s].pc = "updateTask"
  /\ LET i == req[s].i + 1
     IN /\ tasks' = updateTask(tasks, req[s].userTasks[i], "DONE",
                               taskNotes(req[s].body.notes))
        /\ req' = [req EXCEPT ![s] =
             [req[s] EXCEPT !.i = i,
                            !.pc = IF i < Len(req[s].userTasks) THEN "updateTask"
                                   ELSE "createAuditLog"]]
  /\ UNCHANGED <<env, officeState, comments, documents, workflows, versions, auditLogs, budget>>

ApproveAuditLog(s) ==
  /\ req[s].kind = "approve" /\ req[s].pc = "createAuditLog"
  /\ AuditLogStep(s, "APPROVE_DOCUMENT")

\* ------------------------------------------------------------------ POST /api/documents/:id/reject
\* Mutant of reasonMissing: only an undefined reason is refused.
reasonUndefined(reason) == reason = Absent

\* if (!reason): undefined and the empty string are both refused
reasonMissing(reason) == reason \in {Absent, ""}

RejectGetDocument(s) ==
  /\ CanReceive(s)
  /\ \E caller \in Callers, docId \in 1..MaxDocs, reason \in ReasonInputs :
       LET r == Receive(s, "reject", caller, docId, [NoBody EXCEPT !.reason = reason])
           document == getDocument(docId)
       IN req' = [req EXCEPT ![s] =
            IF reasonMissing(reason)
            THEN [r EXCEPT !.pc = "done", !.code = 400, !.err = "validation"]
            ELSE IF document = <<>>
            THEN [r EXCEPT !.pc = "done", !.code = 404, !.err = "notfound"]
            ELSE IF /\ ~canApproveDocument(document[1], getUser(caller))
                    /\ ~canReviewDocument(document[1], getUser(caller))
            THEN [r EXCEPT !.pc = "done", !.code = 403, !.err = "auth"]
            ELSE [r EXCEPT !.pc = "updateDocument", !.document = document]]
  /\ budget' = budget - 1
  /\ UNCHANGED <<env, officeState, store>>

RejectUpdateDocument(s) ==
  /\ req[s].kind = "reject" /\ req[s].pc = "updateDocument"
  /\ UpdateDocumentStatus(s, "REJECTED")

RejectGetWorkflow(s) ==
  /\ req[s].kind = "reject" /\ req[s].pc = "getWorkflow"
  /\ GetWorkflowStep(s, "createAuditLog")

\* Mutant of RejectUpdateWorkflow: the open tasks of the document are cancelled
\* along with the workflow update.
RejectUpdateWorkflowCancelling(s) ==
  /\ req[s].kind = "reject" /\ req[s].pc = "updateWorkflow"
  /\ workflows' = updateWorkflow(workflows, req[s].workflow[1].id, "REJECTED",
                                 Append(req[s].workflow[1].history,
                                        HistoryEntry(req[s].caller, "REJECT", Absent,
                                                     req[s].body.reason)))
  /\ tasks' = [k \in DOMAIN tasks |->
                IF tasks[k].docId = req[s].docId /\ tasks[k].state = "OPEN"
                THEN [tasks[k] EXCEPT !.state = "CANCELLED"]
                ELSE tasks[k]]
  /\ req' = [req EXCEPT ![s] = Goto(s, "createAuditLog")]
  /\ UNCHANGED <<env, officeState, comments, documents, versions, auditLogs, budget>>

RejectUpdateWorkflow(s) ==
  /\ req[s].kind = "reject" /\ req[s].pc = "updateWorkflow"
  /\ UpdateWorkflowStep(s, "REJECTED",
                        HistoryEntry(req[s].caller, "REJECT", Absent, req[s].body.reason),
                        "createAuditLog")

RejectAuditLog(s) ==
  /\ req[s].kind = "reject" /\ req[s].pc = "createAuditLog"
  /\ AuditLogStep(s, "REJECT_DOCUMENT")

\* ------------------------------------------------------------------ POST /api/documents/:id/comments
\* insertCommentSchema.parse({ ...req.body, docId, authorUid }): body is required.
insertCommentSchemaOk(body) == body.body # Absent

\* createComment: document_comments.doc_id references documents.id, so
\* DatabaseStorage refuses a comment on a document that does not exist;
\* MemStorage stores whatever it is given.
createCommentOk(kind, docId) == kind = "MemStorage" \/ docId \in DOMAIN documents

\* The handler checks neither that the document exists nor what the caller may
\* do with it.  Its catch block answers 500 to every error, a ZodError included.
AddCommentCreate(s) ==
  /\ CanReceive(s)
  /\ \E caller \in Callers, docId \in 1..MaxDocs, text \in CommentInputs :
       LET body == [NoBody EXCEPT !.body = text]
           r == Receive(s, "comment", caller, docId, body)
       IN IF insertCommentSchemaOk(body) /\ createCommentOk(storageKind, docId)
          THEN /\ comments' = Append(comments,
                      [id |-> Len(comments) + 1, docId |-> docId,
                       authorUid |-> caller, body |-> text])
               /\ req' = [req EXCEPT ![s] = [r EXCEPT !.pc = "createAuditLog"]]
          ELSE /\ comments' = comments
               /\ req' = [req EXCEPT ![s] =
                            [r EXCEPT !.pc = "done", !.code = 500, !.err = "server"]]
  /\ budget' = budget - 1
  /\ UNCHANGED <<env, officeState, documents, workflows, tasks, versions, auditLogs>>

AddCommentAuditLog(s) ==
  /\ req[s].kind = "comment" /\ req[s].pc = "createAuditLog"
  /\ auditLogs' = Append(auditLogs,
                         AuditEntry(req[s].caller, "ADD_COMMENT", req[s].docId))
  /\ req' = [req EXCEPT ![s] = Respond(s, 201, "none")]
  /\ UNCHANGED <<env, officeState, comments, documents, workflows, tasks, versions, budget>>

\* ------------------------------------------------------------------ office sessions
\* The office, message and office login operations exist in MemStorage only:
\* under DatabaseStorage a call of one of them throws a TypeError.
hasOfficeOperations(kind) == kind = "MemStorage"

OfficeCodeInputs == {Absent, "NYC001", "LA002", "XXX"}

PasswordInputs == {Absent, "secure123", "westcoast456"}

\* The x-office-session header: none, a token never issued, an issued token.
TokenInputs == {0, UnknownToken} \cup DOMAIN officeLogins

\* The requests behind the session middleware, with their parameters.
OfficeRequests ==
  {[kind |-> "dashboard", officeId |-> o, messageId |-> 0] : o \in {"NYC001", "LA002"}}
  \cup {[kind |-> "markRead", officeId |-> Absent, messageId |-> m] : m \in {1, 2}}
  \cup {[kind |-> "logout", officeId |-> Absent, messageId |-> 0]}

\* What the client sees when the middleware's promise rejects: no answer, or
\* the framework's error answer.
UnhandledOutcomes == {0, 500}

\* MemStorage.getOfficeByCode / getOfficeByOfficeId: <<office>> or <<>>
getOfficeByCode(officeCode) ==
  LET found == {o \in offices : o.officeCode = officeCode}
  IN IF found = {} THEN <<>> ELSE <<CHOOSE o \in found : TRUE>>

getOfficeByOfficeId(officeId) ==
  LET found == {o \in offices : o.officeId = officeId}
  IN IF found = {} THEN <<>> ELSE <<CHOOSE o \in found : TRUE>>

\* MemStorage.validateOfficeLogin: <<office>> or <<>> (null)
validateOfficeLogin(officeCode, password) ==
  LET office == getOfficeByCode(officeCode)
  IN IF office = <<>> \/ office[1].officePassword # password THEN <<>> ELSE office

\* Math.random().toString(36).substring(2) + Date.now().toString(36): taken to
\* differ from every token issued before.
newSessionToken(logins) == Cardinality(DOMAIN logins) + 1

\* MemStorage.createOfficeLogin: this.officeLogins.set(sessionToken, newLogin)
createOfficeLogin(logins, sessionToken, officeId, at) ==
  [k \in DOMAIN logins \cup {sessionToken} |->
     IF k = sessionToken
     THEN [sessionToken |-> sessionToken, officeId |-> officeId,
           isActive |-> TRUE, expiresAt |-> at + sessionLifetime]
     ELSE logins[k]]

\* MemStorage.validateOfficeSession: <<login>> or <<>> (undefined)
validateOfficeSession(logins, sessionToken, at) ==
  IF \/ sessionToken \notin DOMAIN logins
     \/ ~logins[sessionToken].isActive
     \/ at > logins[sessionToken].expiresAt
  THEN <<>>
  ELSE <<logins[sessionToken]>>

\* Mutant of invalidateOfficeSession: the session record is deleted.
removeOfficeSession(logins, sessionToken) ==
  [k \in DOMAIN logins \ {sessionToken} |-> logins[k]]

\* MemStorage.invalidateOfficeSession
invalidateOfficeSession(logins, sessionToken) ==
  IF sessionToken \in DOMAIN logins
  THEN [logins EXCEPT ![sessionToken].isActive = FALSE]
  ELSE logins

\* MemStorage.markMessageAsRead
markMessageAsRead(msgs, messageId, userId) ==
  IF messageId \in DOMAIN msgs
  THEN [msgs EXCEPT ![messageId].isRead = @ \cup {userId}]
  ELSE msgs

\* POST /api/office/login, up to storage.validateOfficeLogin
OfficeLoginValidate(s) ==
  /\ CanReceive(s)
  /\ \E officeCode \in OfficeCodeInputs, password \in PasswordInputs :
       LET r == Receive(s, "login", "guest", 0,
                        [NoBody EXCEPT !.officeCode = officeCode, !.password = password])
           office == validateOfficeLogin(officeCode, password)
       IN req' = [req EXCEPT ![s] =
            IF officeCode = Absent \/ password = Absent
            THEN [r EXCEPT !.pc = "done", !.code = 400, !.err = "validation"]
            ELSE IF ~hasOfficeOperations(storageKind)
            THEN [r EXCEPT !.pc = "done", !.code = 500, !.err = "server"]
            ELSE IF office = <<>>
            THEN [r EXCEPT !.pc = "done", !.code = 401, !.err = "credentials"]
            ELSE [r EXCEPT !.pc = "createOfficeLogin", !.office = office]]
  /\ budget' = budget - 1
  /\ UNCHANGED <<env, store, officeState>>

\* POST /api/office/login: storage.createOfficeLogin and the answer
OfficeLoginCreate(s) ==
  /\ req[s].kind = "login" /\ req[s].pc = "createOfficeLogin"
  /\ LET sessionToken == newSessionToken(officeLogins)
     IN /\ officeLogins' = createOfficeLogin(officeLogins, sessionToken,
                                             req[s].office[1].officeId, now)
        /\ req' = [req EXCEPT ![s] =
             [req[s] EXCEPT !.pc = "done", !.code = 200, !.newId = sessionToken,
                            !.at = now]]
  /\ UNCHANGED <<env, store, messages, now, budget>>

\* The middleware validateOfficeSession, and the synchronous start of the
\* handler behind it.  The middleware has no try/catch.
OfficeSessionCheck(s) ==
  /\ CanReceive(s)
  /\ \E request \in OfficeRequests, sessionToken \in TokenInputs,
        unhandled \in UnhandledOutcomes :
       LET r == [Receive(s, request.kind, "guest", 0,
                         [NoBody EXCEPT !.sessionToken = sessionToken,
                                        !.officeId = request.officeId,
                                        !.messageId = request.messageId])
                   EXCEPT !.at = now]
           session == validateOfficeSession(officeLogins, sessionToken, now)
       IN req' = [req EXCEPT ![s] =
            IF sessionToken = 0
            THEN [r EXCEPT !.pc = "done", !.code = 401, !.err = "nosession"]
            ELSE IF ~hasOfficeOperations(storageKind)
            THEN [r EXCEPT !.pc = "done", !.code = unhandled, !.err = "unhandled"]
            ELSE IF session = <<>>
            THEN [r EXCEPT !.pc = "done", !.code = 401, !.err = "invalidsession"]
            ELSE IF request.kind = "dashboard" /\ session[1].officeId # request.officeId
            THEN [r EXCEPT !.pc = "done", !.code = 403, !.err = "auth",
                           !.officeSession = session]
            ELSE [r EXCEPT !.officeSession = session,
                           !.pc = CASE request.kind = "dashboard" -> "getOfficeByOfficeId"
                                    [] request.kind = "markRead" -> "markMessageAsRead"
                                    [] request.kind = "logout" -> "invalidateOfficeSession"]]
  /\ budget' = budget - 1
  /\ UNCHANGED <<env, store, officeState>>

\* GET /api/office-dashboard/:officeId: the office, its messages and members
\* are read and returned.
OfficeDashboard(s) ==
  /\ req[s].kind = "dashboard" /\ req[s].pc = "getOfficeByOfficeId"
  /\ req' = [req EXCEPT ![s] =
       IF getOfficeByOfficeId(req[s].body.officeId) = <<>>
       THEN Respond(s, 404, "notfound")
       ELSE Respond(s, 200, "none")]
  /\ UNCHANGED <<env, store, officeState, budget>>

\* PATCH /api/office-messages/:messageId/read
OfficeMarkRead(s) ==
  /\ req[s].kind = "markRead" /\ req[s].pc = "markMessageAsRead"
  /\ messages' = markMessageAsRead(messages, req[s].body.messageId,
                                   <<"office", req[s].officeSession[1].officeId>>)
  /\ req' = [req EXCEPT ![s] = Respond(s, 200, "none")]
  /\ UNCHANGED <<env, store, officeLogins, now, budget>>

\* POST /api/office/logout
OfficeLogout(s) ==
  /\ req[s].kind = "logout" /\ req[s].pc = "invalidateOfficeSession"
  /\ officeLogins' = invalidateOfficeSession(officeLogins,
                                             req[s].officeSession[1].sessionToken)
  /\ req' = [req EXCEPT ![s] = Respond(s, 200, "none")]
  /\ UNCHANGED <<env, store, messages, now, budget>>

\* Time passes.
Tick ==
  /\ now < MaxClock
  /\ now' = now + 1
  /\ UNCHANGED <<env, store, officeLogins, messages, req, budget>>

\* ------------------------------------------------------------------ GET /api/documents/:id
\* The users who ask for a document: the known users and one whose id the
\* users table does not hold.
AccessCallers == DOMAIN users \cup {"ghost"}

GetDocumentCheck(s) ==
  /\ CanReceive(s)
  /\ \E caller \in AccessCallers, docId \in 1..MaxDocs :
       LET r == Receive(s, "get", caller, docId, NoBody)
           document == getDocument(docId)
           user == getUser(caller)
       IN req' = [req EXCEPT ![s] =
            IF document = <<>>
            THEN [r EXCEPT !.pc = "done", !.code = 404, !.err = "notfound"]
            ELSE IF ~canAccessDocument(document[1], user)
            THEN [r EXCEPT !.pc = "done", !.code = 403, !.err = "auth"]
            ELSE [r EXCEPT !.pc = "enrich", !.document = document]]
  /\ budget' = budget - 1
  /\ UNCHANGED <<env, officeState, store>>

\* The owner, the versions, the comments and the workflow are read and sent.
GetDocumentEnrich(s) ==
  /\ req[s].kind = "get" /\ req[s].pc = "enrich"
  /\ req' = [req EXCEPT ![s] =
       [Respond(s, 200, "none") EXCEPT !.workflow = getWorkflow(req[s].docId)]]
  /\ UNCHANGED <<env, officeState, store, budget>>

\* ------------------------------------------------------------------ storage failure
\* A query of DatabaseStorage rejects (the database is unreachable or refuses
\* the statement): the handler's catch block answers 500.  What the request
\* wrote before stays written: no handler runs in a transaction.
StorageFailure(s) ==
  /\ storageKind = "DatabaseStorage"
  /\ InFlight(s)
  /\ faults > 0
  /\ faults' = faults - 1
  /\ req' = [req EXCEPT ![s] = Respond(s, 500, "server")]
  /\ UNCHANGED <<storageKind, traffic, store, officeState, budget>>

\* ------------------------------------------------------------------ specifications
Handler(s) ==
  \/ CreateDocument(s) \/ CreateWorkflow(s) \/ CreateAuditLog(s)
  \/ EditGetDocument(s) \/ EditUpdateDocument(s)
  \/ VersionsGetDocument(s) \/ VersionsGetVersions(s) \/ VersionsCreateVersion(s)
  \/ VersionsUpdateDocument(s) \/ VersionsAuditLog(s)
  \/ SubmitGetDocument(s) \/ SubmitUpdateDocument(s) \/ SubmitGetWorkflow(s)
  \/ SubmitUpdateWorkflow(s) \/ SubmitCreateTask(s) \/ SubmitAuditLog(s)
  \/ ApproveGetDocument(s) \/ ApproveUpdateDocument(s) \/ ApproveGetWorkflow(s)
  \/ ApproveUpdateWorkflow(s) \/ ApproveGetTasks(s) \/ ApproveUpdateTask(s)
  \/ ApproveAuditLog(s)
  \/ RejectGetDocument(s) \/ RejectUpdateDocument(s) \/ RejectGetWorkflow(s)
  \/ RejectUpdateWorkflow(s) \/ RejectAuditLog(s)

\* Requests interleave at their storage calls.
Next == \E s \in Slots : Handler(s)

Spec == ConcInit /\ [][Next]_vars

\* One request at a time: each request runs to completion before the next is
\* received (a run without interleaving).
SeqNext == Handler(1)

SeqSpec == Init /\ [][SeqNext]_vars

\* The same with the longer runs of scenario traffic.
ScenarioSpec == ScenarioInit /\ [][SeqNext]_vars

\* Documents are created and commented on, one request at a time.
CommentNext ==
  \/ CreateDocument(1) \/ CreateWorkflow(1) \/ CreateAuditLog(1)
  \/ AddCommentCreate(1) \/ AddCommentAuditLog(1)

CommentSpec == CommentInit /\ [][CommentNext]_vars

\* The office endpoints, one request at a time, while time passes.
OfficeHandler(s) ==
  \/ OfficeLoginValidate(s) \/ OfficeLoginCreate(s)
  \/ OfficeSessionCheck(s) \/ OfficeDashboard(s) \/ OfficeMarkRead(s)
  \/ OfficeLogout(s)

OfficeNext == OfficeHandler(1) \/ Tick

OfficeSpec == OfficeInit /\ [][OfficeNext]_vars

\* One request at a time, and storage calls of DatabaseStorage may fail.
FaultNext == Handler(1) \/ StorageFailure(1)

FaultSpec == FaultInit /\ [][FaultNext]_vars

\* Documents are created and submitted one request at a time and approved by
\* requests that interleave at their storage calls.
ApproveNext ==
  \/ CreateDocument(1) \/ CreateWorkflow(1) \/ CreateAuditLog(1)
  \/ SubmitGetDocument(1) \/ SubmitUpdateDocument(1) \/ SubmitGetWorkflow(1)
  \/ SubmitUpdateWorkflow(1) \/ SubmitCreateTask(1) \/ SubmitAuditLog(1)
  \/ \E s \in Slots :
       \/ ApproveGetDocument(s) \/ ApproveUpdateDocument(s) \/ ApproveGetWorkflow(s)
       \/ ApproveUpdateWorkflow(s) \/ ApproveGetTasks(s) \/ ApproveUpdateTask(s)
       \/ ApproveAuditLog(s)

ApproveSpec == ApproveInit /\ [][ApproveNext]_vars

\* The same, and reject requests interleave with the approve requests.
DecisionNext ==
  \/ ApproveNext
  \/ \E s \in Slots :
       \/ RejectGetDocument(s) \/ RejectUpdateDocument(s) \/ RejectGetWorkflow(s)
       \/ RejectUpdateWorkflow(s) \/ RejectAuditLog(s)

DecisionSpec == ApproveInit /\ [][DecisionNext]_vars

\* Documents are created one request at a time and given versions by requests
\* that interleave at their storage calls.
VersionNext ==
  \/ CreateDocument(1) \/ CreateWorkflow(1) \/ CreateAuditLog(1)
  \/ \E s \in Slots :
       \/ VersionsGetDocument(s) \/ VersionsGetVersions(s) \/ VersionsCreateVersion(s)
       \/ VersionsUpdateDocument(s) \/ VersionsAuditLog(s)

VersionSpec == ConcInit /\ [][VersionNext]_vars

\* Documents are fetched, one request at a time.  The server holds one
\* document, created by u1 or u3 with any participants over u1 and u2.
AccessParticipantLists == {<<>>, <<"u1">>, <<"u2">>, <<"u1", "u2">>}

AccessParticipants ==
  [editors : AccessParticipantLists, reviewers : AccessParticipantLists,
   approvers : AccessParticipantLists, viewers : AccessParticipantLists]

AccessInit ==
  /\ storageKind \in StorageKinds
  /\ traffic = "access"
  /\ budget = MaxRequests
  /\ faults = 0
  /\ \E owner \in {"u1", "u3"}, p \in AccessParticipants :
       LET body == [NoBody EXCEPT !.title = "t1", !.participants = p]
       IN /\ documents = <<createDocument(storageKind,
                             insertDocumentSchemaParse(validatedData(body, owner)))>>
          /\ auditLogs = <<AuditEntry(owner, "DOCUMENT_CREATED", 1)>>
  /\ workflows = <<[id |-> 1, docId |-> 1, state |-> "DRAFT", history |-> <<>>]>>
  /\ tasks = <<>>
  /\ versions = <<>>
  /\ comments = <<>>
  /\ officeLogins = <<>>
  /\ messages = sampleMessages
  /\ now = 0
  /\ req = [s \in Slots |-> IdleReq]

AccessNext == GetDocumentCheck(1) \/ GetDocumentEnrich(1)

AccessSpec == AccessInit /\ [][AccessNext]_vars

\* ------------------------------------------------------------------ the last request
\* Under SeqSpec slot 1 holds the request that ran last: its inputs, its
\* response and the tables as they were when it was received.
R == req[1]

Completed(kind) == R.kind = kind /\ R.pc = "done"

PreExists == R.docId \in DOMAIN R.pre.documents

PreDoc == R.pre.documents[R.docId]

WorkflowsOf(wfs, docId) == {wfs[w] : w \in {x \in DOMAIN wfs : wfs[x].docId = docId}}

TablesUnchanged ==
  /\ documents = R.pre.documents
  /\ workflows = R.pre.workflows
  /\ tasks = R.pre.tasks
  /\ versions = R.pre.versions
  /\ auditLogs = R.pre.auditLogs
  /\ comments = R.pre.comments
  /\ officeLogins = R.pre.officeLogins
  /\ messages = R.pre.messages

\* The access predicates as section 4.1 of the specification defines them.
IsAdmin(uid) == uid \in DOMAIN users /\ "ADMIN" \in users[uid].roles

CanEdit(doc, uid) ==
  uid \in DOMAIN users
  /\ (IsAdmin(uid) \/ doc.ownerUid = uid \/ InSeq(uid, doc.participants.editors))

CanReview(doc, uid) ==
  uid \in DOMAIN users /\ (IsAdmin(uid) \/ InSeq(uid, doc.participants.reviewers))

CanApprove(doc, uid) ==
  uid \in DOMAIN users
  /\ (IsAdmin(uid) \/ "APPROVER" \in users[uid].roles
      \/ InSeq(uid, doc.participants.approvers))

\* The pairs (Document.status, Workflow.state) of the table of section 4.3.
PairingTable ==
  {<<"DRAFT", "DRAFT">>, <<"IN_REVIEW", "REVIEW">>, <<"APPROVED", "DONE">>,
   <<"REJECTED", "REJECTED">>}

\* ------------------------------------------------------------------ claims
\* C1: whenever no request is in flight, every document's status is one of the
\* six enum values and the pair (Document.status, Workflow.state) of the
\* document and its workflow is a pair of the table of section 4.3, whatever
\* the request bodies were (the body of create included).
C1_StatusWorkflowPaired ==
  Quiescent =>
    \A d \in DOMAIN documents :
      /\ documents[d].status \in documentStatusEnum
      /\ WorkflowsOf(workflows, d) # {}
      /\ \A wf \in WorkflowsOf(workflows, d) :
           <<documents[d].status, wf.state>> \in PairingTable

\* The tasks a submit adds: one OPEN REVIEW task per reviewer, in list order.
NewReviewTasks(n, docId, workflowId, reviewers) ==
  [i \in 1..Len(reviewers) |->
     [id |-> n + i, type |-> "REVIEW", docId |-> docId, workflowId |-> workflowId,
      state |-> "OPEN", assignedTo |-> <<reviewers[i]>>, notes |-> Null]]

\* C2: a submit by a user for whom canEdit holds, on a DRAFT document, run
\* without interleaving, ends with Document.status = IN_REVIEW, Workflow.state
\* = REVIEW, exactly one new SUBMIT_FOR_REVIEW history entry by the caller, and
\* exactly one new OPEN REVIEW task assigned to [r] per reviewer r and no
\* other new task.
C2_SubmitEffect ==
  (/\ Completed("submit")
   /\ PreExists
   /\ PreDoc.status = "DRAFT"
   /\ CanEdit(PreDoc, R.caller))
  => /\ documents[R.docId].status = "IN_REVIEW"
     /\ \A w \in DOMAIN workflows :
          workflows[w].docId = R.docId =>
            /\ workflows[w].state = "REVIEW"
            /\ workflows[w].history =
                 Append(R.pre.workflows[w].history,
                        [byUid |-> R.caller, action |-> "SUBMIT_FOR_REVIEW",
                         meta |-> [notes |-> Absent, reason |-> Absent]])
            /\ tasks = R.pre.tasks
                       \o NewReviewTasks(Len(R.pre.tasks), R.docId, w,
                                         PreDoc.participants.reviewers)

\* C3: a submit on a document whose status is not DRAFT fails with a
\* state-conflict error and leaves Document.status, Workflow.state,
\* Workflow.history, the tasks and the audit log unchanged, whoever calls.
C3_SubmitNonDraftConflict ==
  (Completed("submit") /\ PreExists /\ PreDoc.status # "DRAFT")
  => /\ R.code = 400
     /\ R.err = "state"
     /\ TablesUnchanged

\* C3 happens: a user who may edit the document submits it while it is IN_REVIEW.
C3_Witness ==
  /\ Completed("submit")
  /\ PreExists
  /\ PreDoc.status = "IN_REVIEW"
  /\ CanEdit(PreDoc, R.caller)
  /\ R.code = 400

\* C4: approve is guarded by status: an approve on a document whose status is
\* neither IN_REVIEW nor PENDING_SIGNATURE fails and changes no document,
\* workflow or task, even for a caller who satisfies canApprove; so a second
\* approve of an APPROVED document fails.
C4_ApproveStatusGuard ==
  (/\ Completed("approve")
   /\ PreExists
   /\ PreDoc.status \notin {"IN_REVIEW", "PENDING_SIGNATURE"})
  => /\ R.code # 200
     /\ documents = R.pre.documents
     /\ workflows = R.pre.workflows
     /\ tasks = R.pre.tasks

\* C5: an approve by a user for whom canApprove holds, on an IN_REVIEW
\* document, run without interleaving, ends with Document.status = APPROVED
\* and Workflow.state = DONE and appends exactly one APPROVE entry (byUid the
\* caller, meta the supplied body) after the earlier entries, kept in order.
C5_ApproveEffect ==
  (/\ Completed("approve")
   /\ PreExists
   /\ PreDoc.status = "IN_REVIEW"
   /\ CanApprove(PreDoc, R.caller))
  => /\ documents[R.docId].status = "APPROVED"
     /\ \A w \in DOMAIN workflows :
          workflows[w].docId = R.docId =>
            /\ workflows[w].state = "DONE"
            /\ workflows[w].history =
                 Append(R.pre.workflows[w].history,
                        [byUid |-> R.caller, action |-> "APPROVE",
                         meta |-> [notes |-> R.body.notes, reason |-> Absent]])

\* C6: after a successful approve of document d by user u, every task of d
\* assigned to u that was OPEN is DONE with notes equal to the supplied notes
\* or "Approved", so none is left OPEN; every other task (of another user or
\* of another document) is as it was, and no task is added or removed.
C6_ApproveCompletesTasks ==
  (Completed("approve") /\ R.code = 200)
  => /\ DOMAIN tasks = DOMAIN R.pre.tasks
     /\ \A k \in DOMAIN R.pre.tasks :
          LET before == R.pre.tasks[k]
          IN IF /\ before.docId = R.docId
                /\ InSeq(R.caller, before.assignedTo)
                /\ before.state = "OPEN"
             THEN tasks[k] =
                    [before EXCEPT
                       !.state = "DONE",
                       !.notes = IF R.body.notes \in {Absent, ""} THEN "Approved"
                                 ELSE R.body.notes]
             ELSE tasks[k] = before
     /\ \A k \in DOMAIN tasks :
          (tasks[k].docId = R.docId /\ InSeq(R.caller, tasks[k].assignedTo))
            => tasks[k].state # "OPEN"

\* C6 happens: the approver had an OPEN task of the document, it was given
\* notes, another user's OPEN task of the document is still OPEN, and the
\* approver's own OPEN task of another document is still OPEN.
C6_Witness ==
  /\ Completed("approve")
  /\ R.code = 200
  /\ R.body.notes = "ok"
  /\ \E k \in DOMAIN R.pre.tasks :
       /\ R.pre.tasks[k].docId = R.docId
       /\ R.pre.tasks[k].state = "OPEN"
       /\ InSeq(R.caller, R.pre.tasks[k].assignedTo)
       /\ tasks[k].state = "DONE"
  /\ \E k \in DOMAIN R.pre.tasks :
       /\ R.pre.tasks[k].docId = R.docId
       /\ ~InSeq(R.caller, R.pre.tasks[k].assignedTo)
       /\ tasks[k].state = "OPEN"
  /\ \E k \in DOMAIN R.pre.tasks :
       /\ R.pre.tasks[k].docId # R.docId
       /\ InSeq(R.caller, R.pre.tasks[k].assignedTo)
       /\ R.pre.tasks[k].state = "OPEN"
       /\ tasks[k].state = "OPEN"

\* C7: a reject with a non-empty reason by a user for whom canReview or
\* canApprove holds, on a document in any status, run without interleaving,
\* ends with Document.status = REJECTED and Workflow.state = REJECTED and
\* appends exactly one REJECT entry with byUid the caller and meta.reason the
\* supplied reason.
C7_RejectEffect ==
  (/\ Completed("reject")
   /\ R.body.reason \notin {Absent, ""}
   /\ PreExists
   /\ (CanReview(PreDoc, R.caller) \/ CanApprove(PreDoc, R.caller)))
  => /\ documents[R.docId].status = "REJECTED"
     /\ \A w \in DOMAIN workflows :
          workflows[w].docId = R.docId =>
            /\ workflows[w].state = "REJECTED"
            /\ workflows[w].history =
                 Append(R.pre.workflows[w].history,
                        [byUid |-> R.caller, action |-> "REJECT",
                         meta |-> [notes |-> Absent, reason |-> R.body.reason]])

\* C8: a reject whose reason is missing or empty fails with a validation error
\* before any mutation: documents, workflows, tasks and the audit log are
\* unchanged, for every caller and every document status.
C8_RejectNeedsReason ==
  (Completed("reject") /\ R.body.reason \in {Absent, ""})
  => /\ R.code = 400
     /\ R.err = "validation"
     /\ TablesUnchanged

\* C8 happens: a user who may reject the document sends an empty reason.
C8_Witness ==
  /\ Completed("reject")
  /\ R.body.reason = ""
  /\ PreExists
  /\ PreDoc.status = "IN_REVIEW"
  /\ CanReview(PreDoc, R.caller)
  /\ R.code = 400

C10_EditIffCanEditAndEditable ==
  (Completed("edit") /\ PreExists)
  => LET mayEdit == CanEdit(PreDoc, R.caller)
         editable == PreDoc.status \in {"DRAFT", "REJECTED"}
     IN /\ (R.code = 200) <=> (mayEdit /\ editable)
        /\ ~mayEdit => (R.code = 403 /\ R.err = "auth" /\ documents = R.pre.documents)
        /\ (mayEdit /\ ~editable)
             => (R.code = 400 /\ R.err = "state" /\ documents = R.pre.documents)

\* C11: every successful create produces a document whose ownerUid is the
\* caller and whose status is DRAFT, together with a workflow of that document
\* in state DRAFT with an empty history, whatever the body carries.
C11_CreateDefaults ==
  (Completed("create") /\ R.code = 201)
  => /\ R.docId = Len(R.pre.documents) + 1
     /\ Len(documents) = Len(R.pre.documents) + 1
     /\ documents[R.docId].ownerUid = R.caller
     /\ documents[R.docId].status = "DRAFT"
     /\ \E w \in DOMAIN workflows :
          /\ workflows[w].docId = R.docId
          /\ workflows[w].state = "DRAFT"
          /\ workflows[w].history = <<>>

\* C12: whenever no request is in flight (after a failed create included),
\* every document has exactly one workflow.
C12_OneWorkflowPerDocument ==
  Quiescent =>
    \A d \in DOMAIN documents :
      Cardinality({w \in DOMAIN workflows : workflows[w].docId = d}) = 1

\* The ids of the versions of a document, and the number of them created up
\* to and including version v.
VersionIdsOf(docId) == {v \in DOMAIN versions : versions[v].docId = docId}

RankOf(v) == Cardinality({u \in VersionIdsOf(versions[v].docId) : u <= v})

\* C13: when the add-version calls run one after another, the k-th version
\* created for a document has the number "k.0" (so the first is "1.0", every
\* later one is the latest number plus one, and the numbers strictly
\* increase), and getDocumentVersions returns all versions of the document,
\* newest first.
C13_VersionNumbering ==
  /\ \A v \in DOMAIN versions : versions[v].versionNumber = <<RankOf(v), 0>>
  /\ \A d \in DOMAIN documents :
       LET listed == getDocumentVersions(d)
       IN /\ {listed[i].id : i \in DOMAIN listed} = VersionIdsOf(d)
          /\ Len(listed) = Cardinality(VersionIdsOf(d))
          /\ \A i, j \in DOMAIN listed : i < j => listed[i].id > listed[j].id

\* C13 happens: the third add-version on a document has created "3.0".
C13_Witness ==
  /\ R.kind = "versions"
  /\ Cardinality(VersionIdsOf(R.docId)) = 3
  /\ Len(versions) = Len(R.pre.versions) + 1
  /\ versions[Len(versions)].versionNumber = <<3, 0>>
  /\ getDocumentVersions(R.docId)[1] = versions[Len(versions)]

\* C14: after a successful add-version the document's currentVersionId is the
\* id of the version the request created, that version is new, and
\* getLatestVersion of the document returns it.
C14_CurrentVersionIsNewest ==
  (Completed("versions") /\ R.code = 201)
  => /\ Len(versions) = Len(R.pre.versions) + 1
     /\ versions[Len(versions)].docId = R.docId
     /\ versions[Len(versions)].id \notin
          {R.pre.versions[v].id : v \in DOMAIN R.pre.versions}
     /\ documents[R.docId].currentVersionId = versions[Len(versions)].id
     /\ getLatestVersion(R.docId) = <<versions[Len(versions)]>>

\* C14 happens: the second successful add-version on a document that is no
\* longer a draft moves currentVersionId from the first version to the second.
C14_Witness ==
  /\ Completed("versions")
  /\ R.code = 201
  /\ PreExists
  /\ PreDoc.status # "DRAFT"
  /\ PreDoc.currentVersionId # 0
  /\ R.pre.versions[PreDoc.currentVersionId].docId = R.docId
  /\ documents[R.docId].currentVersionId # PreDoc.currentVersionId

\* C15: in every state, every document's currentVersionId is unset or the id
\* of an existing version of that document.
C15_CurrentVersionExists ==
  \A d \in DOMAIN documents :
    \/ documents[d].currentVersionId = 0
    \/ /\ documents[d].currentVersionId \in DOMAIN versions
       /\ versions[documents[d].currentVersionId].docId = d

\* C15 happens: a create whose body names a current version has produced a
\* document without one, while another document points at its own version.
C15_Witness ==
  /\ Completed("create")
  /\ R.code = 201
  /\ R.body.currentVersionId # 0
  /\ documents[R.docId].currentVersionId = 0
  /\ \E d \in DOMAIN documents : documents[d].currentVersionId # 0

\* C16: every successful create, edit, add-version, submit, approve, reject
\* and add-comment request has appended exactly one audit entry, whose
\* actorUid is the caller and whose target is the document; no finished request
\* has appended more than one.
C16_OneAuditEntry ==
  (R.kind # "none" /\ R.pc = "done")
  => /\ Len(auditLogs) <= Len(R.pre.auditLogs) + 1
     /\ R.code \in {200, 201}
          => /\ Len(auditLogs) = Len(R.pre.auditLogs) + 1
             /\ SubSeq(auditLogs, 1, Len(R.pre.auditLogs)) = R.pre.auditLogs
             /\ auditLogs[Len(auditLogs)].actorUid = R.caller
             /\ auditLogs[Len(auditLogs)].target = R.docId

IsPrefix(a, b) == Len(a) <= Len(b) /\ SubSeq(b, 1, Len(a)) = a

\* C17: under every interleaving of requests, every step keeps every workflow
\* and leaves its history a prefix of what it becomes, so that the history in
\* an earlier state of a run is a prefix of the history in any later state.
C17_HistoryAppendOnly ==
  [][\A w \in DOMAIN workflows :
       /\ w \in DOMAIN workflows'
       /\ IsPrefix(workflows[w].history, workflows'[w].history)]_vars

\* The validity of an office session as the specification defines it: the
\* token is known, the session is active and the time is before expiresAt.
SessionValid(logins, sessionToken, at) ==
  /\ sessionToken \in DOMAIN logins
  /\ logins[sessionToken].isActive
  /\ at < logins[sessionToken].expiresAt

OfficeScoped == {"dashboard", "markRead", "logout"}

\* C18: validation accepts a token if and only if a session with that token
\* exists, is active and now < expiresAt; at now = expiresAt it is invalid.
C18_ValidationIff ==
  \A sessionToken \in TokenInputs :
    (validateOfficeSession(officeLogins, sessionToken, now) # <<>>)
      <=> SessionValid(officeLogins, sessionToken, now)

\* C19: an office-scoped request that presents an unknown token, the token of
\* a deactivated session or the token of an expired session (now >= expiresAt)
\* gets one and the same answer, 401 "Invalid or expired office session", and
\* changes nothing.
C19_InvalidIndistinguishable ==
  (/\ R.kind \in OfficeScoped
   /\ R.pc = "done"
   /\ storageKind = "MemStorage"
   /\ R.body.sessionToken # 0
   /\ ~SessionValid(R.pre.officeLogins, R.body.sessionToken, R.at))
  => /\ R.code = 401
     /\ R.err = "invalidsession"
     /\ TablesUnchanged

\* C20: no step removes a session record or makes a session valid that was
\* invalid, and the step that answers a logout leaves the session of the
\* presented token in place with isActive = false.
C20_LogoutDeactivates ==
  [][/\ \A k \in DOMAIN officeLogins :
          /\ k \in DOMAIN officeLogins'
          /\ validateOfficeSession(officeLogins, k, now) = <<>>
               => validateOfficeSession(officeLogins', k, now') = <<>>
     /\ (/\ req[1].kind = "logout"
         /\ req[1].pc = "invalidateOfficeSession"
         /\ req'[1].pc = "done"
         /\ req'[1].code = 200)
        => /\ req[1].body.sessionToken \in DOMAIN officeLogins'
           /\ ~officeLogins'[req[1].body.sessionToken].isActive]_vars

\* C20 happens: a session was logged out, the same office has logged in again
\* and holds a valid session, and a request with the old token, made before
\* the old session's expiry, has been refused.
C20_Witness ==
  /\ R.kind = "dashboard"
  /\ R.pc = "done"
  /\ R.err = "invalidsession"
  /\ R.body.sessionToken \in DOMAIN officeLogins
  /\ ~officeLogins[R.body.sessionToken].isActive
  /\ R.at < officeLogins[R.body.sessionToken].expiresAt
  /\ \E k \in DOMAIN officeLogins :
       /\ k # R.body.sessionToken
       /\ officeLogins[k].officeId = officeLogins[R.body.sessionToken].officeId
       /\ validateOfficeSession(officeLogins, k, now) # <<>>

\* C21: a login issues a session if and only if an office with the supplied
\* officeCode exists and its password is the supplied one; the session is
\* bound to that office's officeId, is active and expires 24 hours after its
\* issuance; a login that is refused creates no session record.
C21_LoginIssuesSession ==
  Completed("login")
  => LET matching == {o \in offices : /\ o.officeCode = R.body.officeCode
                                      /\ o.officePassword = R.body.password}
         issued == DOMAIN officeLogins \ DOMAIN R.pre.officeLogins
     IN /\ (R.code = 200) <=> (matching # {})
        /\ \A k \in DOMAIN R.pre.officeLogins :
             k \in DOMAIN officeLogins /\ officeLogins[k] = R.pre.officeLogins[k]
        /\ IF matching # {}
           THEN /\ issued = {R.newId}
                /\ \E o \in matching : officeLogins[R.newId].officeId = o.officeId
                /\ officeLogins[R.newId].isActive
                /\ officeLogins[R.newId].expiresAt = R.at + sessionLifetime
           ELSE issued = {}

\* ------------------------------------------------------------------ C22, C23
\* The access rule as the specification states it.
CanAccess(doc, uid) ==
  uid \in DOMAIN users
  /\ \/ IsAdmin(uid)
     \/ doc.ownerUid = uid
     \/ InSeq(uid, doc.participants.editors)
     \/ InSeq(uid, doc.participants.reviewers)
     \/ InSeq(uid, doc.participants.approvers)
     \/ InSeq(uid, doc.participants.viewers)

HasApproverRole(uid) == uid \in DOMAIN users /\ "APPROVER" \in users[uid].roles

ParticipantLists == {"editors", "reviewers", "approvers", "viewers"}

\* The document with uid added to one of its participant lists.
WithParticipant(doc, list, uid) ==
  [doc EXCEPT !.participants[list] = Append(@, uid)]

\* C22: for every stored document and every user, known or absent,
\* canAccessDocument, canEditDocument, canReviewDocument and canApproveDocument
\* equal their stated definitions (all false for an absent user), and a
\* request decided by canAccessDocument is refused exactly when the rule says
\* so and leaves every table as it was.
C22_AccessPredicates ==
  /\ \A d \in DOMAIN documents, uid \in AccessCallers :
       LET doc == documents[d]
           user == getUser(uid)
       IN /\ canAccessDocument(doc, user) <=> CanAccess(doc, uid)
          /\ canEditDocument(doc, user) <=> CanEdit(doc, uid)
          /\ canReviewDocument(doc, user)
               <=> (uid \in DOMAIN users
                    /\ (IsAdmin(uid) \/ InSeq(uid, doc.participants.reviewers)))
          /\ canApproveDocument(doc, user)
               <=> (uid \in DOMAIN users
                    /\ (IsAdmin(uid) \/ HasApproverRole(uid)
                        \/ InSeq(uid, doc.participants.approvers)))
          /\ uid \notin DOMAIN users
               => /\ ~canAccessDocument(doc, user) /\ ~canEditDocument(doc, user)
                  /\ ~canReviewDocument(doc, user) /\ ~canApproveDocument(doc, user)
  /\ (Completed("get") /\ PreExists)
       => /\ (R.code = 200) <=> CanAccess(PreDoc, R.caller)
          /\ (R.code = 403) <=> ~CanAccess(PreDoc, R.caller)
          /\ TablesUnchanged

\* A user who is neither admin nor owner and is listed only among the viewers
\* was sent the document.
C22_Witness ==
  /\ Completed("get") /\ PreExists /\ R.code = 200
  /\ ~IsAdmin(R.caller) /\ PreDoc.ownerUid # R.caller
  /\ InSeq(R.caller, PreDoc.participants.viewers)
  /\ ~InSeq(R.caller, PreDoc.participants.editors \o PreDoc.participants.reviewers
                        \o PreDoc.participants.approvers)

\* C23: adding a user id to a participant list of a document never takes
\* access away from anyone, and gives access to no one but the added user.
C23_AccessMonotonic ==
  \A d \in DOMAIN documents, uid \in AccessCallers, added \in AccessCallers,
     list \in ParticipantLists :
    LET doc == documents[d]
        more == WithParticipant(doc, list, added)
        before == canAccessDocument(doc, getUser(uid))
        after == canAccessDocument(more, getUser(uid))
    IN /\ before => after
       /\ (~before /\ after) => uid = added

\* A user was refused a document that already has another participant, and
\* would have access once added to its viewers.
C23_Witness ==
  /\ Completed("get") /\ PreExists /\ R.code = 403
  /\ PreDoc.participants.editors # <<>>
  /\ ~canAccessDocument(PreDoc, getUser(R.caller))
  /\ canAccessDocument(WithParticipant(PreDoc, "viewers", R.caller), getUser(R.caller))

\* ------------------------------------------------------------------ C24
\* C24: an add-comment request by a user for whom canAccess does not hold, or
\* on a document that does not exist, is rejected and creates neither a comment
\* nor an audit entry.
C24_CommentNeedsAccess ==
  (Completed("comment") /\ (~PreExists \/ ~CanAccess(PreDoc, R.caller)))
    => /\ R.code >= 400
       /\ comments = R.pre.comments
       /\ auditLogs = R.pre.auditLogs

\* ------------------------------------------------------------------ C25
NoApproveEntry(history) == \A i \in DOMAIN history : history[i].action # "APPROVE"

ApproveEntryOf(r) == HistoryEntry(r.caller, "APPROVE", r.body.notes, Absent)

\* Both slots hold an answered approve request, by different users, of the same
\* document, which was IN_REVIEW and had no approval in its history when they
\* were received.
TwoApprovalsCompleted ==
  /\ \A s \in Slots : req[s].kind = "approve" /\ req[s].pc = "done" /\ req[s].code = 200
  /\ req[1].docId = req[2].docId
  /\ req[1].caller # req[2].caller
  /\ \A s \in Slots :
       /\ req[s].docId \in DOMAIN req[s].pre.documents
       /\ req[s].pre.documents[req[s].docId].status = "IN_REVIEW"
       /\ \A w \in WorkflowsOf(req[s].pre.workflows, req[s].docId) :
            w.state = "REVIEW" /\ NoApproveEntry(w.history)

\* C25: after the approve requests of two authorized users on the same
\* IN_REVIEW document have both completed, in whatever order their steps
\* interleaved, the document is APPROVED, its workflow is DONE, the history is
\* the earlier history followed by exactly two APPROVE entries, one for each
\* user, and the tasks of the document that were OPEN for either user are DONE.
C25_ConcurrentApprovals ==
  TwoApprovalsCompleted
    => LET d == req[1].docId
           earlier == req[1].pre.workflows
       IN /\ documents[d].status = "APPROVED"
          /\ \A w \in DOMAIN workflows :
               workflows[w].docId = d
                 => /\ workflows[w].state = "DONE"
                    /\ w \in DOMAIN earlier
                    /\ workflows[w].history
                         \in {earlier[w].history
                                \o <<ApproveEntryOf(req[1]), ApproveEntryOf(req[2])>>,
                              earlier[w].history
                                \o <<ApproveEntryOf(req[2]), ApproveEntryOf(req[1])>>}
          /\ \A k \in DOMAIN req[1].pre.tasks :
               LET task == req[1].pre.tasks[k]
               IN (/\ task.docId = d /\ task.state = "OPEN"
                   /\ \E s \in Slots : task.assignedTo = <<req[s].caller>>)
                    => tasks[k].state = "DONE"

\* ------------------------------------------------------------------ C26
SameNumber(v, w) == v.docId = w.docId /\ v.versionNumber = w.versionNumber

\* C26: a version that carries the number of an earlier version of its
\* document is inserted only by an add-version request that was in flight when
\* that earlier version was inserted (the two requests interleaved); requests
\* that run one after the other never produce equal numbers.
C26_DuplicateOnlyInterleaved ==
  [][\A s \in Slots :
       (req[s].kind = "versions" /\ req[s].pc = "createDocumentVersion"
        /\ req'[s] # req[s])
         => \A v \in DOMAIN versions :
              SameNumber(versions[v], versions'[Len(versions')])
                => v \notin DOMAIN req[s].pre.versions]_vars

\* Two versions of one document carry the same number.
C26_Witness ==
  \E v, w \in DOMAIN versions : v # w /\ SameNumber(versions[v], versions[w])

\* ------------------------------------------------------------------ C27
\* The status and the workflow state a transition request writes.
TransitionTarget ==
  [submit |-> <<"IN_REVIEW", "REVIEW">>, approve |-> <<"APPROVED", "DONE">>,
   reject |-> <<"REJECTED", "REJECTED">>]

\* C27: when a submit, approve or reject request has been answered, with
\* success or after a storage call failed, the status of its document and the
\* state of the document's workflow are either both as they were when the
\* request was received or both as the request writes them.
C27_TransitionAllOrNothing ==
  (R.pc = "done" /\ R.kind \in DOMAIN TransitionTarget /\ PreExists)
    => \A w \in DOMAIN R.pre.workflows :
         R.pre.workflows[w].docId = R.docId
           => \/ /\ documents[R.docId].status = PreDoc.status
                 /\ workflows[w].state = R.pre.workflows[w].state
              \/ /\ documents[R.docId].status = TransitionTarget[R.kind][1]
                 /\ workflows[w].state = TransitionTarget[R.kind][2]

\* ------------------------------------------------------------------ C28
\* C28: a reject request, answered with success or with an error, leaves every
\* task as it was when the request was received (the modelled fields state and
\* notes; doneAt is written together with state): the tasks that were OPEN are
\* still OPEN.
C28_RejectLeavesTasks ==
  Completed("reject")
    => /\ tasks = R.pre.tasks
       /\ \A k \in DOMAIN R.pre.tasks :
            R.pre.tasks[k].state = "OPEN" => tasks[k].state = "OPEN"

\* A document with open review tasks was rejected.
C28_Witness ==
  /\ Completed("reject") /\ R.code = 200
  /\ documents[R.docId].status = "REJECTED"
  /\ \E k \in DOMAIN R.pre.tasks :
       R.pre.tasks[k].docId = R.docId /\ R.pre.tasks[k].state = "OPEN"

\* ------------------------------------------------------------------ C29
\* C29: every step keeps the tasks it finds, with their docId, workflowId and
\* assignedTo; the only change of a task's state is from OPEN to DONE (so a
\* DONE task stays DONE); every task a step adds is an OPEN task of type
\* REVIEW; no task is CANCELLED.
C29_TaskLifecycle ==
  [][/\ Len(tasks') >= Len(tasks)
     /\ \A k \in DOMAIN tasks :
          /\ tasks'[k].docId = tasks[k].docId
          /\ tasks'[k].workflowId = tasks[k].workflowId
          /\ tasks'[k].assignedTo = tasks[k].assignedTo
          /\ tasks'[k].type = tasks[k].type
          /\ tasks'[k].state # tasks[k].state
               => tasks[k].state = "OPEN" /\ tasks'[k].state = "DONE"
     /\ \A k \in DOMAIN tasks' \ DOMAIN tasks :
          tasks'[k].state = "OPEN" /\ tasks'[k].type = "REVIEW"
     /\ \A k \in DOMAIN tasks' : tasks'[k].state # "CANCELLED"]_vars

\* One review task of a document is DONE while another is still OPEN.
C29_Witness ==
  \E k, l \in DOMAIN tasks :
    /\ tasks[k].docId = tasks[l].docId
    /\ tasks[k].state = "DONE" /\ tasks[l].state = "OPEN"

\* ------------------------------------------------------------------ C30
\* The documents other than the request's are as they were, and so is every
\* field of the request's document outside `fields`.
DocumentChangedOnlyIn(fields) ==
  /\ DOMAIN documents = DOMAIN R.pre.documents
  /\ \A d \in DOMAIN documents :
       \A f \in DOMAIN documents[d] :
         (d # R.docId \/ f \notin fields) => documents[d][f] = R.pre.documents[d][f]

\* C30: a successful edit and a successful add-version leave the status of
\* every document, the state and the history of every workflow and all tasks
\* unchanged; edit changes nothing of the document but title and content and
\* adds no version, add-version changes nothing of the document but
\* currentVersionId and only adds a version.
C30_EditAndVersionFrame ==
  /\ (Completed("edit") /\ R.code = 200)
       => /\ DocumentChangedOnlyIn({"title", "content"})
          /\ workflows = R.pre.workflows
          /\ tasks = R.pre.tasks
          /\ versions = R.pre.versions
  /\ (Completed("versions") /\ R.code = 201)
       => /\ DocumentChangedOnlyIn({"currentVersionId"})
          /\ workflows = R.pre.workflows
          /\ tasks = R.pre.tasks
          /\ Len(versions) = Len(R.pre.versions) + 1
          /\ IsPrefix(R.pre.versions, versions)

\* A document that has a version was edited with a body that also names a
\* status.
C30_Witness ==
  /\ Completed("edit") /\ R.code = 200
  /\ R.body.status # Absent
  /\ documents[R.docId].content = R.body.content
  /\ documents[R.docId].currentVersionId \in DOMAIN versions

\* ------------------------------------------------------------------ C31
\* The requests whose handlers call storage.updateDocument.
UpdatingRequests == {"edit", "versions", "submit", "approve", "reject"}

\* C31: the storage in use implements every operation the handlers invoke, so
\* no edit, add-version, submit, approve or reject request is answered 500 for
\* want of a storage operation: what the request does is what it does under
\* the other storage.
C31_StoragesSubstitutable ==
  (R.pc = "done" /\ R.kind \in UpdatingRequests /\ R.code = 500)
    => hasUpdateDocument(storageKind)

\* ------------------------------------------------------------------ C32
\* C32: under every interleaving, a step changes the title or the content of a
\* document only while the document's status is DRAFT or REJECTED.
C32_EditOnlyWhileEditable ==
  [][\A d \in DOMAIN documents :
       (documents'[d].title # documents[d].title
        \/ documents'[d].content # documents[d].content)
         => documents[d].status \in {"DRAFT", "REJECTED"}]_vars

\* ------------------------------------------------------------------ C33
SubmitEntries(history) ==
  {i \in DOMAIN history : history[i].action = "SUBMIT_FOR_REVIEW"}

OpenReviewTasks(docId, reviewerId) ==
  {k \in DOMAIN tasks : /\ tasks[k].docId = docId
                        /\ tasks[k].type = "REVIEW"
                        /\ tasks[k].state = "OPEN"
                        /\ tasks[k].assignedTo = <<reviewerId>>}

Succeeded(s) == req[s].pc = "done" /\ req[s].code = 200

\* Both slots hold an answered submit request of the same document, which was
\* DRAFT and not yet submitted when each was received.
TwoSubmitsCompleted ==
  /\ \A s \in Slots :
       /\ req[s].kind = "submit" /\ req[s].pc = "done"
       /\ req[s].docId \in DOMAIN req[s].pre.documents
       /\ req[s].pre.documents[req[s].docId].status = "DRAFT"
       /\ req[s].pre.tasks = <<>>
       /\ \A w \in WorkflowsOf(req[s].pre.workflows, req[s].docId) :
            SubmitEntries(w.history) = {}
  /\ req[1].docId = req[2].docId

\* C33: after two submit requests on the same DRAFT document have both
\* completed, however they interleaved, at most one of them has succeeded, the
\* history holds at most one SUBMIT_FOR_REVIEW entry and there is at most one
\* OPEN REVIEW task for each reviewer; if one has succeeded there is exactly one
\* entry and exactly one task for each reviewer.
C33_SubmitAtMostOnce ==
  TwoSubmitsCompleted
    => LET d == req[1].docId
           reviewers == documents[d].participants.reviewers
           n == IF \E s \in Slots : Succeeded(s) THEN 1 ELSE 0
       IN /\ ~(Succeeded(1) /\ Succeeded(2))
          /\ \A w \in WorkflowsOf(workflows, d) :
               Cardinality(SubmitEntries(w.history)) = n
          /\ \A i \in DOMAIN reviewers :
               Cardinality(OpenReviewTasks(d, reviewers[i])) = n

\* ------------------------------------------------------------------ C34
\* The slots hold an answered approve and an answered reject request, both
\* successful, of the same document, which was IN_REVIEW with its workflow in
\* REVIEW when each was received.
ApproveAndRejectCompleted ==
  /\ {req[s].kind : s \in Slots} = {"approve", "reject"}
  /\ \A s \in Slots :
       /\ Succeeded(s)
       /\ req[s].docId \in DOMAIN req[s].pre.documents
       /\ req[s].pre.documents[req[s].docId].status = "IN_REVIEW"
       /\ \A w \in WorkflowsOf(req[s].pre.workflows, req[s].docId) : w.state = "REVIEW"
  /\ req[1].docId = req[2].docId

\* C34: after an approve and a reject request on the same document have both
\* completed, however their writes interleaved, the document and its workflow
\* are either APPROVED and DONE or REJECTED and REJECTED.
C34_DecisionsAgree ==
  ApproveAndRejectCompleted
    => \A w \in WorkflowsOf(workflows, req[1].docId) :
         <<documents[req[1].docId].status, w.state>>
           \in {<<"APPROVED", "DONE">>, <<"REJECTED", "REJECTED">>}

\* ------------------------------------------------------------------ C35
NoVersionsInFlight == \A s \in Slots : ~(req[s].kind = "versions" /\ InFlight(s))

\* C35: whenever no add-version request is in flight, a document whose
\* currentVersionId has been set points at its latest version, the one
\* getLatestVersion returns, however the add-version requests interleaved.
C35_CurrentIsLatest ==
  NoVersionsInFlight
    => \A d \in DOMAIN documents :
         documents[d].currentVersionId # 0
           => getLatestVersion(d) = <<versions[documents[d].currentVersionId]>>

\* ------------------------------------------------------------------ C36
\* C36: no step sets the status of a document back to DRAFT once it has left
\* DRAFT, and no step sets the status of a REJECTED document to IN_REVIEW: a
\* document that has been rejected is never in review again.
C36_NoReturnToDraft ==
  [][\A d \in DOMAIN documents :
       /\ documents[d].status # "DRAFT" => documents'[d].status # "DRAFT"
       /\ documents[d].status = "REJECTED" => documents'[d].status # "IN_REVIEW"]_vars

\* ------------------------------------------------------------------ C37
\* C37: every step keeps the documents it finds, with their ownerUid and their
\* four participant lists, so canAccessDocument, canEditDocument,
\* canReviewDocument and canApproveDocument give every user the same answer
\* on the document afterwards as before.
C37_OwnerAndParticipantsFixed ==
  [][\A d \in DOMAIN documents :
       /\ d \in DOMAIN documents'
       /\ documents'[d].ownerUid = documents[d].ownerUid
       /\ documents'[d].participants = documents[d].participants
       /\ \A uid \in AccessCallers :
            /\ canAccessDocument(documents'[d], getUser(uid))
                 <=> canAccessDocument(documents[d], getUser(uid))
            /\ canEditDocument(documents'[d], getUser(uid))
                 <=> canEditDocument(documents[d], getUser(uid))
            /\ canReviewDocument(documents'[d], getUser(uid))
                 <=> canReviewDocument(documents[d], getUser(uid))
            /\ canApproveDocument(documents'[d], getUser(uid))
                 <=> canApproveDocument(documents[d], getUser(uid))]_vars

\* A document with participants has been edited, given a version and
\* submitted.
C37_Witness ==
  \E d \in DOMAIN documents :
    /\ documents[d].title = "t2"
    /\ documents[d].currentVersionId # 0
    /\ documents[d].status = "IN_REVIEW"
    /\ documents[d].participants = ScenarioParticipants

\* ------------------------------------------------------------------ C38
\* C38: for every stored document and every user, canApproveDocument or
\* canReviewDocument implies canAccessDocument, and a request that changed the
\* status of a document by approving or rejecting it came from a user whom
\* canAccessDocument admits to the document.
C38_DecideImpliesRead ==
  /\ \A d \in DOMAIN documents, uid \in AccessCallers :
       (canApproveDocument(documents[d], getUser(uid))
        \/ canReviewDocument(documents[d], getUser(uid)))
         => canAccessDocument(documents[d], getUser(uid))
  /\ (R.kind \in {"approve", "reject"} /\ R.pc = "done" /\ R.code = 200 /\ PreExists)
       => canAccessDocument(PreDoc, getUser(R.caller))

\* ------------------------------------------------------------------ C39
\* C39: the office dashboard is granted only to a request that presents the
\* token of a valid session (known, active, not expired) issued for the
\* requested office: a request with no token, with an invalid token or for
\* another office than the session's is denied.
C39_DashboardScoped ==
  (Completed("dashboard") /\ R.code = 200)
    => /\ R.body.sessionToken # 0
       /\ SessionValid(R.pre.officeLogins, R.body.sessionToken, R.at)
       /\ R.pre.officeLogins[R.body.sessionToken].officeId = R.body.officeId

====
